---- MODULE Spec2Model ----
(***************************************************************************)
(* Model of the commute-simulation and network-perturbation cells of       *)
(* workshop2.ipynb (sections 2 and 4): seeding of the global random        *)
(* generator, the OD sample, nearest-node snapping, batch routing, the     *)
(* null filter, the random node knock-out and the batch on the perturbed   *)
(* graph.  Graphs are small street networks; the fraction is the float     *)
(* nearest to frac / FracDen; the global generator is a small linear       *)
(* congruential generator standing for numpy's process-wide RandomState.   *)
(***************************************************************************)
EXTENDS Integers, Naturals, Sequences, FiniteSets, TLC

VARIABLES pc, run, seed, frac, k, rng, od, heap, G, G_per,
          home_nodes, work_nodes, paths, out_len_paths, out_len_solved,
          n, nodes_to_remove, home_nodes_per, work_nodes_per, paths_per,
          out_len_paths_per, err, prev, od_rows,
          trip_efficiency, trip_efficiency_per, frac_unsolvable, eff_degradation,
          fn_pc, fn_in, fn_out,
          ci_step, ci_line, ci_tree, ci_files, ci_todo, ci_ran, ci_log, ci_conclusion,
          tie

vars == <<pc, run, seed, frac, k, rng, od, heap, G, G_per,
          home_nodes, work_nodes, paths, out_len_paths, out_len_solved,
          n, nodes_to_remove, home_nodes_per, work_nodes_per, paths_per,
          out_len_paths_per, err, prev, od_rows,
          trip_efficiency, trip_efficiency_per, frac_unsolvable, eff_degradation,
          fn_pc, fn_in, fn_out,
          ci_step, ci_line, ci_tree, ci_files, ci_todo, ci_ran, ci_log, ci_conclusion,
          tie>>

\* the names bound by the efficiency and metric cells
effvars == <<trip_efficiency, trip_efficiency_per, frac_unsolvable, eff_degradation>>

\* the call under check when a function is exercised on its own
fnvars == <<fn_pc, fn_in, fn_out>>

\* the CI job: the step it is at, the line of the test step's script, the
\* tree checked out, the files of the working directory, the scripts the
\* loop still has to run, the scripts run, the steps started, the conclusion
civars == <<ci_step, ci_line, ci_tree, ci_files, ci_todo, ci_ran, ci_log, ci_conclusion>>

\* no CI job is running
CIOff ==
  /\ ci_step = 0 /\ ci_line = 0 /\ ci_tree = {} /\ ci_files = {}
  /\ ci_todo = <<>> /\ ci_ran = <<>> /\ ci_log = <<>> /\ ci_conclusion = "none"

----------------------------------------------------------------------------
(* Bounds of the model *)

\* largest seed given to np.random.seed
MaxSeed == 1
\* largest number of OD rows sampled from the OD table
MaxOD == 2
\* largest number of rows of data/od.csv
MaxOdRows == 4
\* fractions are frac / FracDen with frac in -MaxNegFracNum .. MaxFracNum
MaxNegFracNum == 1
MaxFracNum == 4
FracDen == 3
\* modulus of the stand-in random generator
RngMod == 16
\* an unseeded generator starts in one of the states 0 .. MaxFreshRng
MaxFreshRng == 1

\* longest route handed to calc_efficiency on its own
MaxRouteLen == 3
\* largest solved count, and largest mean efficiency in fixed-point units, given to
\* the comparative metrics on their own
MaxMetricIn == 100
\* most nodes of a graph, and the denominator of the fractions, given to the
\* sample size on its own
MaxSizeNodes == 100
SizeDen == 100
\* largest POI count of a node, and most nodes of an accessibility series
MaxPoiCount == 8
MaxAccessNodes == 3

Seeds == 0..MaxSeed
FracNums == (0 - MaxNegFracNum)..MaxFracNum

----------------------------------------------------------------------------
(* Python values *)

\* Python's None as a routing result; a route is a non-null node list
None == [isNone |-> TRUE, route |-> <<>>, err |-> "ok"]
Route(r) == [isNone |-> FALSE, route |-> r, err |-> "ok"]

\* a routing call that raised instead of returning
RoutingRaised(name) == [isNone |-> FALSE, route |-> <<>>, err |-> name]

\* a name that is not bound yet (cell not executed)
Unset == "unset"

Min(S) == CHOOSE m \in S : \A s \in S : m <= s

RECURSIVE SeqToSet(_)
SeqToSet(s) == IF s = <<>> THEN {} ELSE {Head(s)} \cup SeqToSet(Tail(s))

----------------------------------------------------------------------------
(* The street networks: a MultiDiGraph keeps its nodes in insertion order, *)
(* each with x/y, and its edges as (u, v, key) with length and travel_time *)

Arc(p, q, key, len, tt) == [p |-> p, q |-> q, key |-> key, length |-> len, travel_time |-> tt]

TwoWay(p, q) == {Arc(p, q, 0, 1, 1), Arc(q, p, 0, 1, 1)}

\* street layouts by node position (0-based); graph_from_polygon keeps the
\* largest weakly connected component only and makes its nodes from the ways,
\* so every layout is one component and has an edge at every node
Shapes ==
  << \* a loop road: a single intersection with a street back to itself
     [xy |-> << <<0, 0>> >>, arcs |-> {Arc(0, 0, 0, 1, 1)}],
     \* a one-way street
     [xy |-> << <<0, 0>>, <<1, 1>> >>, arcs |-> {Arc(0, 1, 0, 2, 2)}],
     \* two intersections joined by a two-way street with a bend
     [xy |-> << <<0, 0>>, <<1, 1>> >>, arcs |-> {Arc(0, 1, 0, 2, 2), Arc(1, 0, 0, 2, 2)}],
     \* a two-way line of three, with a parallel slow edge
     [xy |-> << <<0, 0>>, <<1, 0>>, <<1, 1>> >>,
      arcs |-> TwoWay(0, 1) \cup TwoWay(1, 2) \cup {Arc(0, 1, 1, 1, 3)}],
     \* the unit square, two-way
     [xy |-> << <<0, 0>>, <<1, 0>>, <<1, 1>>, <<0, 1>> >>,
      arcs |-> TwoWay(0, 1) \cup TwoWay(1, 2) \cup TwoWay(2, 3) \cup TwoWay(3, 0)],
     \* a one-way triangle
     [xy |-> << <<0, 0>>, <<1, 0>>, <<1, 1>> >>,
      arcs |-> {Arc(0, 1, 0, 1, 1), Arc(1, 2, 0, 1, 1), Arc(2, 0, 0, 2, 2)}],
     \* a one-way street that feeds into a two-way street
     [xy |-> << <<0, 1>>, <<0, 0>>, <<1, 0>> >>, arcs |-> {Arc(0, 1, 0, 1, 1)} \cup TwoWay(1, 2)]
  >>

\* node identifiers are position + offset: 0 gives identifiers 0..N-1, 100
\* gives identifiers (like OSM ids) that are no row position
IdOffsets == {0, 100}

MakeGraph(shape, off) ==
  LET N == Len(shape.xy) IN
  [nodes |-> [i \in 1..N |-> (i - 1) + off],
   x     |-> [id \in {p + off : p \in 0..(N - 1)} |-> shape.xy[(id - off) + 1][1]],
   y     |-> [id \in {p + off : p \in 0..(N - 1)} |-> shape.xy[(id - off) + 1][2]],
   edges |-> {[u |-> a.p + off, v |-> a.q + off, key |-> a.key,
               length |-> a.length, travel_time |-> a.travel_time] : a \in shape.arcs}]

BaseGraphs == {MakeGraph(Shapes[s], off) : s \in 1..Len(Shapes), off \in IdOffsets}

NodeSet(g) == SeqToSet(g.nodes)

\* home and work coordinates for the rows of data/od.csv
OdPoints ==
  << [home |-> <<1, 0>>, work |-> <<1, 0>>],
     [home |-> <<0, 0>>, work |-> <<1, 1>>],
     [home |-> <<1, 1>>, work |-> <<0, 0>>],
     [home |-> <<0, 1>>, work |-> <<1, 0>>] >>

\* pd.read_csv("data/od.csv") of a file of the given number of rows
OdTable(rows) == [i \in 1..rows |-> OdPoints[((i - 1) % Len(OdPoints)) + 1]]

\* the file has MaxOdRows rows or one less
OdRowCounts == {MaxOdRows - 1, MaxOdRows}

----------------------------------------------------------------------------
(* The process-wide random generator behind np.random.seed and .sample()   *)

\* a kernel that has not been seeded starts from an arbitrary generator state
FreshRng == 0..MaxFreshRng

\* np.random.seed(s): the global state is overwritten by a function of s
np_random_seed(cur, s) == (7 * s + 1) % RngMod

RngNext(r) == (5 * r + 3) % RngMod

\* one bounded draw in 0..m from state r
RngInterval(r, m) == (r \div 4) % (m + 1)

Swap(arr, i, j) == [arr EXCEPT ![i] = arr[j], ![j] = arr[i]]

\* RandomState.permutation: Fisher-Yates from the last position down,
\* arr holds the positions 0..N-1 at the 1-based places 1..N
RECURSIVE Shuffle(_, _, _)
Shuffle(arr, i, r) ==
  IF i < 1 THEN [perm |-> arr, rng |-> r]
  ELSE Shuffle(Swap(arr, i + 1, RngInterval(r, i) + 1), i - 1, RngNext(r))

Permutation(N, r) == Shuffle([p \in 1..N |-> p - 1], N - 1, r)

\* pandas .sample(size) on the rows of a table with the default RangeIndex:
\* size distinct row positions, by RandomState.choice(N, size, replace=False)
\* = permutation(N)[:size]; the result keeps the positions as its index and
\* the rows as its values.  A negative size, or one above the number of rows,
\* raises ValueError and draws nothing.
PandasSample(rows, size, r) ==
  IF size < 0 \/ size > Len(rows)
  THEN [err |-> "ValueError", index |-> <<>>, values |-> <<>>, rng |-> r]
  ELSE LET sh == Permutation(Len(rows), r)
           ix == SubSeq(sh.perm, 1, size)
       IN [err |-> "ok", index |-> ix,
           values |-> [j \in 1..size |-> rows[ix[j] + 1]], rng |-> sh.rng]

\* the sample of the node series with the row positions kept as its index
NodeSeriesSamplePositions(nodes, size, r) ==
  LET s == PandasSample(nodes, size, r) IN
  [err |-> s.err, index |-> s.index, rng |-> s.rng]

\* pd.Series(G.nodes).sample(size): G.nodes is a mapping from node id to
\* node data, so the series is indexed by the node ids; the index of the
\* sample holds the ids of the sampled rows
NodeSeriesSample(nodes, size, r) ==
  LET s == PandasSample(nodes, size, r) IN
  [err |-> s.err, index |-> [j \in 1..Len(s.index) |-> nodes[s.index[j] + 1]], rng |-> s.rng]

----------------------------------------------------------------------------
(* Library calls on graphs *)

\* nearest_nodes measures the haversine distance d between a point and a node
\* on longitude x and latitude y.  With the differences dx, dy and the
\* latitudes small, 4 hav(d) = SqDist - HavFourth / 12 up to terms of sixth
\* order: SqDist is the term of second order,
SqDist(g, id, pt) ==
  (g.x[id] - pt[1]) * (g.x[id] - pt[1]) + (g.y[id] - pt[2]) * (g.y[id] - pt[2])

\* and HavFourth the term of fourth order, by which a step along a parallel
\* away from the equator is shorter than the same step along a meridian
HavFourth(g, id, pt) ==
  LET dx == g.x[id] - pt[1]
      dy == g.y[id] - pt[2]
  IN dy * dy * dy * dy + dx * dx * dx * dx
        + 6 * (g.y[id] * g.y[id] + pt[2] * pt[2]) * dx * dx

\* node a is nearer to the point than node b by haversine distance
HavNearer(g, a, b, pt) ==
  \/ SqDist(g, a, pt) < SqDist(g, b, pt)
  \/ SqDist(g, a, pt) = SqDist(g, b, pt) /\ HavFourth(g, a, pt) > HavFourth(g, b, pt)

\* the nodes that no other node is nearer to the point than
NearestCandidates(g, pt) ==
  {a \in NodeSet(g) : \A b \in NodeSet(g) : ~HavNearer(g, b, a, pt)}

\* what the installed libraries do where the program leaves a choice open:
\* of several nodes at the same distance the tree search returns the earliest
\* or the latest in node order; of several routes of the same travel time
\* the search returns the one the order of the edges in the graph's adjacency
\* leads it to, pair by pair, and no tie is settled before a search is run
TiePolicies == [nearest : {"first", "last"}, route : {<<>>}]

\* ox.distance.nearest_nodes for one point: the nearest node, and of several
\* nearest nodes the one the policy of the search picks
NearestNode(g, pt, policy) ==
  LET P == {i \in 1..Len(g.nodes) : g.nodes[i] \in NearestCandidates(g, pt)}
      i == CHOOSE i \in P : \A j \in P : IF policy = "first" THEN i <= j ELSE i >= j
  IN g.nodes[i]

nearest_nodes(g, pts, policy) == [i \in 1..Len(pts) |-> NearestNode(g, pts[i], policy)]

\* travel_time of the hop u -> v: the fastest of the parallel edges
HopWeight(g, u, v) == Min({e.travel_time : e \in {e \in g.edges : e.u = u /\ e.v = v}})

HasEdge(g, u, v) == \E e \in g.edges : e.u = u /\ e.v = v

IsPath(g, p) ==
  /\ \A i, j \in 1..Len(p) : i # j => p[i] # p[j]
  /\ \A i \in 1..(Len(p) - 1) : HasEdge(g, p[i], p[i + 1])

SimplePaths(g, o, d) ==
  {p \in UNION {[1..m -> NodeSet(g)] : m \in 2..Len(g.nodes)} :
      p[1] = o /\ p[Len(p)] = d /\ IsPath(g, p)}

RECURSIVE PathWeight(_, _)
PathWeight(g, p) ==
  IF Len(p) < 2 THEN 0 ELSE HopWeight(g, p[1], p[2]) + PathWeight(g, Tail(p))

\* the routes of least travel_time from orig to dest
BestPaths(g, orig, dest) ==
  LET P == SimplePaths(g, orig, dest) IN
  {p \in P : \A q \in P : PathWeight(g, p) <= PathWeight(g, q)}

\* a search as the edge order sees it: the graph and the two ends.  Every
\* graph of a run is the study-site graph less some nodes, in the edge order
\* of the study-site graph, so its nodes tell which graph it is
RouteKey(g, orig, dest) == <<NodeSet(g), orig, dest>>

\* ox.routing.shortest_path(G, orig, dest, weight="travel_time"): the weight
\* attribute is read off the edges first, which raises IndexError on a graph
\* without any edge; then the node list of a minimum-travel_time path, [orig]
\* when orig = dest, None when dest is unreachable from orig.  Of several
\* routes of least travel_time the bidirectional search keeps the first it
\* meets, which the edge order decides: order[key] is that route
shortest_path(g, orig, dest, order) ==
  IF g.edges = {} THEN RoutingRaised("IndexError")
  ELSE IF orig = dest THEN Route(<<orig>>)
  ELSE LET Best == BestPaths(g, orig, dest) IN
       IF Best = {} THEN None
       ELSE IF Cardinality(Best) = 1 THEN Route(CHOOSE p \in Best : TRUE)
       ELSE Route(order[RouteKey(g, orig, dest)])

\* the searches of a batch in which several routes are tied
TiedKeys(g, homes, works) ==
  {RouteKey(g, homes[i], works[i]) :
     i \in {i \in 1..Min({Len(homes), Len(works)}) :
              /\ g.edges # {}
              /\ homes[i] # works[i]
              /\ Cardinality(BestPaths(g, homes[i], works[i])) > 1}}

\* what the edge order of the graph can make of the ties of a batch: a search
\* run before (known) comes out as it did, every other tie is settled on its
\* own by any one of the tied routes
EdgeOrders(g, homes, works, known) ==
  LET new == TiedKeys(g, homes, works) \ DOMAIN known IN
  IF new = {} THEN {known}
  ELSE {known @@ f :
          f \in {f \in [new -> UNION {BestPaths(g, key[2], key[3]) : key \in new}] :
                   \A key \in new : f[key] \in BestPaths(g, key[2], key[3])}}

\* the exception the first failing call of a batch raises, "ok" without one
BatchError(ps) ==
  IF \E i \in 1..Len(ps) : ps[i].err # "ok"
  THEN ps[CHOOSE i \in 1..Len(ps) : ps[i].err # "ok" /\ \A j \in 1..(i - 1) : ps[j].err = "ok"].err
  ELSE "ok"

\* the batch with the pairs taken in the opposite order
RoutePathsReversed(g, homes, works, order) ==
  LET m == Min({Len(homes), Len(works)}) IN
  [i \in 1..m |-> shortest_path(g, homes[m + 1 - i], works[m + 1 - i], order)]

\* [shortest_path(G, orig, dest) for orig, dest in zip(home_nodes, work_nodes)]
RoutePaths(g, homes, works, order) ==
  [i \in 1..Min({Len(homes), Len(works)}) |-> shortest_path(g, homes[i], works[i], order)]

\* the filter condition without the length test
IsSolvedNotNone(path) == ~path.isNone

\* the condition of the null filter
IsSolved(path) == ~path.isNone /\ Len(path.route) > 1

\* [path for path in paths if path is not None and len(path) > 1]
RECURSIVE FilterSolved(_)
FilterSolved(ps) ==
  IF ps = <<>> THEN <<>>
  ELSE IF IsSolved(Head(ps)) THEN <<Head(ps)>> \o FilterSolved(Tail(ps))
       ELSE FilterSolved(Tail(ps))

\* G.remove_nodes_from(ids): every listed identifier that is a node goes,
\* with every edge into or out of it; identifiers that are no node are
\* silently skipped
RECURSIVE KeepNodes(_, _)
KeepNodes(ns, ids) ==
  IF ns = <<>> THEN <<>>
  ELSE IF Head(ns) \in ids THEN KeepNodes(Tail(ns), ids)
       ELSE <<Head(ns)>> \o KeepNodes(Tail(ns), ids)

\* node removal that leaves the edges of the removed nodes behind
remove_nodes_keep_edges(g, ids) ==
  LET left == NodeSet(g) \ ids IN
  [nodes |-> KeepNodes(g.nodes, ids),
   x     |-> [id \in left |-> g.x[id]],
   y     |-> [id \in left |-> g.y[id]],
   edges |-> g.edges]

remove_nodes_from(g, ids) ==
  LET left == NodeSet(g) \ ids IN
  [nodes |-> KeepNodes(g.nodes, ids),
   x     |-> [id \in left |-> g.x[id]],
   y     |-> [id \in left |-> g.y[id]],
   edges |-> {e \in g.edges : e.u \notin ids /\ e.v \notin ids}]

----------------------------------------------------------------------------
(* Graph objects live in a heap; G and G_per are references into it *)

Refs == {"base", "per"}

NoGraph == [nodes |-> <<>>, x |-> <<>>, y |-> <<>>, edges |-> {}]

\* G_per = G: a second name for the same graph object
GraphCopyAlias(ref) == ref

\* G.copy(): a new graph object with the same nodes and edges
GraphCopy(ref) == "per"

----------------------------------------------------------------------------
(* Python floats in the sample size: IEEE 754 doubles.  A positive double  *)
(* is kept as its exponent e and the bits m of its significand, most       *)
(* significant first, with the value 0.m[1]m[2]... * 2^e in binary.         *)

\* bits of the significand of a double
Mantissa == 53

\* a / b scaled by a power of two into [1/2, 1): a / b = (r.a / r.b) * 2^r.e
RECURSIVE Normalise(_, _, _)
Normalise(a, b, e) ==
  IF a >= b THEN Normalise(a, 2 * b, e + 1)
  ELSE IF 2 * a < b THEN Normalise(2 * a, b, e - 1)
  ELSE [a |-> a, b |-> b, e |-> e]

\* the first binary places of r / b after those in bits, by long division,
\* up to m places in all; r is the remainder left over
RECURSIVE Expand(_, _, _, _)
Expand(r, b, bits, m) ==
  IF Len(bits) = m THEN [bits |-> bits, r |-> r]
  ELSE IF 2 * r >= b THEN Expand(2 * r - b, b, Append(bits, 1), m)
  ELSE Expand(2 * r, b, Append(bits, 0), m)

\* one unit added in the last place: the last clear bit is set and the bits
\* after it are cleared; carry is 1 when every bit was set
AddOne(bits) ==
  LET clear == {i \in 1..Len(bits) : bits[i] = 0} IN
  IF clear = {} THEN [bits |-> [i \in 1..Len(bits) |-> 0], carry |-> 1]
  ELSE LET j == CHOOSE i \in clear : \A h \in clear : h <= i
       IN [bits |-> [i \in 1..Len(bits) |-> IF i < j THEN bits[i] ELSE IF i = j THEN 1 ELSE 0],
           carry |-> 0]

\* round to nearest, ties to even: bits (leading bit set, at least Mantissa
\* of them) times 2^e, followed by further non-zero places when more is TRUE
RoundToDouble(bits, e, more) ==
  LET kept   == SubSeq(bits, 1, Mantissa)
      guard  == IF Len(bits) > Mantissa THEN bits[Mantissa + 1] ELSE 0
      sticky == more \/ \E i \in (Mantissa + 2)..Len(bits) : bits[i] = 1
      up     == guard = 1 /\ (sticky \/ kept[Mantissa] = 1)
      h      == AddOne(kept)
  IN IF ~up THEN [e |-> e, m |-> kept]
     ELSE IF h.carry = 1 THEN [e |-> e + 1, m |-> <<1>> \o SubSeq(h.bits, 1, Mantissa - 1)]
     ELSE [e |-> e, m |-> h.bits]

\* the double nearest to a / b (a, b > 0): the value of the Python
\* expression a / b and of a decimal literal that spells a / b
DoubleOf(a, b) ==
  LET q == Normalise(a, b, 0)
      x == Expand(q.a, q.b, <<>>, Mantissa + 1)
  IN RoundToDouble(x.bits, q.e, x.r # 0)

\* the binary digits of c, most significant first (none for 0)
RECURSIVE BinaryOf(_)
BinaryOf(c) == IF c = 0 THEN <<>> ELSE Append(BinaryOf(c \div 2), c % 2)

\* the bits of N times the number with the bits m, from place i down with
\* carry c; acc holds the places already done
RECURSIVE TimesFrom(_, _, _, _, _)
TimesFrom(m, N, i, c, acc) ==
  IF i = 0 THEN BinaryOf(c) \o acc
  ELSE TimesFrom(m, N, i - 1, (N * m[i] + c) \div 2, <<(N * m[i] + c) % 2>> \o acc)

\* float(N) * d for an int N >= 1: the exact product rounded to a double
DoubleTimesInt(d, N) ==
  LET p == TimesFrom(d.m, N, Len(d.m), 0, <<>>)
  IN RoundToDouble(p, d.e + (Len(p) - Len(d.m)), FALSE)

\* the number with the binary digits bits
RECURSIVE BitsValue(_)
BitsValue(bits) ==
  IF bits = <<>> THEN 0 ELSE 2 * BitsValue(SubSeq(bits, 1, Len(bits) - 1)) + bits[Len(bits)]

\* int(d) of a positive double below 2^Mantissa: its integer part
DoubleToInt(d) == IF d.e <= 0 THEN 0 ELSE BitsValue(SubSeq(d.m, 1, d.e))

\* int(N * (num / den)) in Python floats: the product of two doubles is
\* rounded to a double before int() cuts it off toward zero
PyIntOfProduct(N, num, den) ==
  IF N = 0 \/ num = 0 THEN 0
  ELSE LET mag == DoubleToInt(DoubleTimesInt(DoubleOf(IF num < 0 THEN -num ELSE num, den), N))
       IN IF num < 0 THEN -mag ELSE mag

\* the sample size forced to at least one node
SampleSizeAtLeastOne(N, num, den) ==
  IF PyIntOfProduct(N, num, den) < 1 THEN 1 ELSE PyIntOfProduct(N, num, den)

\* n = int(len(G.nodes) * frac), with the float frac = num / den
SampleSize(N, num, den) == PyIntOfProduct(N, num, den)

----------------------------------------------------------------------------
(* Floating-point values: a float is nan, inf, -inf or a number kept in    *)
(* fixed point: a metric is v / Scale, an efficiency v / EffScale, and a   *)
(* mean is the fraction v / den of the unit of its entries                 *)

\* resolution of the fixed-point stand-in for a metric
Scale == 100

\* resolution of the fixed-point stand-in for an efficiency
EffScale == 10000

Num(v) == [kind |-> "num", v |-> v, den |-> 1, err |-> "ok"]
NaN == [kind |-> "nan", v |-> 0, err |-> "ok"]
Inf == [kind |-> "inf", v |-> 0, err |-> "ok"]
NegInf == [kind |-> "neginf", v |-> 0, err |-> "ok"]
\* a float name that is not bound yet
NoFloat == [kind |-> "unset", v |-> 0, err |-> "ok"]
\* an exception raised instead of a value
Raised(name) == [kind |-> "error", v |-> 0, err |-> name]

\* numpy float division a / b of non-negative floats of one unit: a zero
\* divisor gives inf (nan for 0 / 0) with a warning, never an exception;
\* else the quotient (a.v / a.den) / (b.v / b.den), to the nearest 1 / Scale
FloatDiv(a, b) ==
  IF a.kind = "nan" \/ b.kind = "nan" THEN NaN
  ELSE IF a.kind = "inf" THEN (IF b.kind = "inf" THEN NaN ELSE Inf)
  ELSE IF b.kind = "inf" THEN Num(0)
  ELSE IF b.v = 0 THEN (IF a.v = 0 THEN NaN ELSE Inf)
  ELSE Num((2 * a.v * b.den * Scale + b.v * a.den) \div (2 * b.v * a.den))

\* 1 - f
OneMinus(f) ==
  IF f.kind = "nan" THEN NaN
  ELSE IF f.kind = "inf" THEN NegInf
  ELSE IF f.kind = "neginf" THEN Inf
  ELSE Num(Scale - f.v)

RECURSIVE SumV(_)
SumV(fs) == IF fs = <<>> THEN 0 ELSE Head(fs).v + SumV(Tail(fs))

\* the entries of a series that are not nan
RECURSIVE DropNaN(_)
DropNaN(fs) ==
  IF fs = <<>> THEN <<>>
  ELSE IF Head(fs).kind = "nan" THEN DropNaN(Tail(fs))
       ELSE <<Head(fs)>> \o DropNaN(Tail(fs))

\* pd.Series.mean(): the nan entries are skipped; nan for a series with
\* nothing left, inf for one holding an inf, else sum / count, kept as that
\* fraction
SeriesMean(fs) ==
  LET xs == DropNaN(fs) IN
  IF xs = <<>> THEN NaN
  ELSE IF \E i \in 1..Len(xs) : xs[i].kind = "inf" THEN Inf
  ELSE [kind |-> "num", v |-> SumV(xs), den |-> Len(xs), err |-> "ok"]

\* the largest m in lo..hi with m * m * b <= a, by bisection (b >= 1)
RECURSIVE FloorRoot(_, _, _, _)
FloorRoot(lo, hi, a, b) ==
  IF lo >= hi THEN lo
  ELSE LET mid == (lo + hi + 1) \div 2 IN
       IF mid * mid * b <= a THEN FloorRoot(mid, hi, a, b)
       ELSE FloorRoot(lo, mid - 1, a, b)

----------------------------------------------------------------------------
(* calc_efficiency *)

\* attribute attr of the hop u -> v as route_to_gdf takes it: of the parallel
\* edges the one of least length (weight="length"), the first key among equals
HopAttr(g, u, v, attr) ==
  LET es == {e \in g.edges : e.u = u /\ e.v = v}
      e  == CHOOSE e \in es : \A f \in es :
               e.length < f.length \/ (e.length = f.length /\ e.key <= f.key)
  IN e[attr]

HopLength(g, u, v) == HopAttr(g, u, v, "length")

\* sum(ox.routing.route_to_gdf(G, route)[attr])
RECURSIVE SumAttr(_, _, _)
SumAttr(g, route, attr) ==
  IF Len(route) < 2 THEN 0
  ELSE HopAttr(g, route[1], route[2], attr) + SumAttr(g, Tail(route), attr)

\* the trip distance with the travel times summed in place of the lengths
TripDistanceByTime(g, route) == SumAttr(g, route, "travel_time")

\* trip_distance with the default attr="length"
TripDistance(g, route) == SumAttr(g, route, "length")

\* the straight-line distance taken to the second node of the route
GcSquaredToSecond(g, route) ==
  LET a == route[1]
      b == route[IF Len(route) >= 2 THEN 2 ELSE 1]
  IN (g.x[a] - g.x[b]) * (g.x[a] - g.x[b]) + (g.y[a] - g.y[b]) * (g.y[a] - g.y[b])

\* square of ox.distance.great_circle between the first and the last node of
\* the route; on these small layouts the straight-line distance of the plane
GcSquared(g, route) ==
  LET a == route[1]
      b == route[Len(route)]
  IN (g.x[a] - g.x[b]) * (g.x[a] - g.x[b]) + (g.y[a] - g.y[b]) * (g.y[a] - g.y[b])

\* route_to_gdf raises when the subgraph of the route's nodes has no edge
\* (ValueError) and when two consecutive nodes are not joined by an edge, or
\* a node is not in the graph (KeyError)
RouteError(g, route) ==
  IF {e \in g.edges : e.u \in SeqToSet(route) /\ e.v \in SeqToSet(route)} = {}
  THEN "ValueError"
  ELSE IF \E i \in 1..Len(route) : route[i] \notin NodeSet(g) THEN "KeyError"
  ELSE IF \E i \in 1..(Len(route) - 1) : ~HasEdge(g, route[i], route[i + 1]) THEN "KeyError"
  ELSE "ok"

\* calc_efficiency(G, route): gc_distance / trip_distance as a float, v in
\* units of 1 / EffScale, with the exact gc_distance squared and
\* trip_distance kept beside it
calc_efficiency(g, route) ==
  IF RouteError(g, route) # "ok"
  THEN [kind |-> "error", v |-> 0, err |-> RouteError(g, route), gcsq |-> 0, trip |-> 0]
  ELSE LET trip == TripDistance(g, route)
           gcsq == GcSquared(g, route)
           f == IF trip = 0 THEN (IF gcsq = 0 THEN NaN ELSE Inf)
                ELSE Num(FloorRoot(0, EffScale * gcsq, EffScale * EffScale * gcsq, trip * trip))
       IN [kind |-> f.kind, v |-> f.v, err |-> "ok", gcsq |-> gcsq, trip |-> trip]

\* [calc_efficiency(G, path) for path in paths]
EfficiencySeries(g, ps) == [i \in 1..Len(ps) |-> calc_efficiency(g, ps[i].route)]

\* the first exception raised while the series is built, "ok" if none
SeriesError(fs) ==
  IF \E i \in 1..Len(fs) : fs[i].kind = "error"
  THEN fs[Min({i \in 1..Len(fs) : fs[i].kind = "error"})].err
  ELSE "ok"

----------------------------------------------------------------------------
(* The comparative metrics *)

\* 1 - (len(paths_per) / len(paths)) with the two runs swapped
FractionUnsolvableSwapped(after, before) ==
  IF after = 0 THEN Raised("ZeroDivisionError")
  ELSE Num(Scale - (before * Scale) \div after)

\* 1 - (len(paths_per) / len(paths)): Python int division, which raises
\* ZeroDivisionError on a zero divisor
FractionUnsolvable(after, before) ==
  IF before = 0 THEN Raised("ZeroDivisionError")
  ELSE Num(Scale - (after * Scale) \div before)

\* 1 - (trip_efficiency_per.mean() / trip_efficiency.mean()): float division
EfficiencyDegradation(meanAfter, meanBefore) == OneMinus(FloatDiv(meanAfter, meanBefore))

----------------------------------------------------------------------------
(* The notebook, one action per executed cell *)

NoPrev == [seed |-> -1, frac |-> 0, k |-> 0, od_rows |-> 0, sel |-> <<>>, valid |-> FALSE]

\* a fresh kernel: nothing but the study-site graph G is bound
Init ==
  /\ pc = "seed"
  /\ run = 1
  /\ seed \in Seeds
  /\ frac \in FracNums
  /\ k \in 1..MaxOD
  /\ rng \in FreshRng
  /\ od = <<>>
  /\ \E g \in BaseGraphs : heap = [r \in Refs |-> IF r = "base" THEN g ELSE NoGraph]
  /\ G = "base"
  /\ G_per = Unset
  /\ home_nodes = <<>> /\ work_nodes = <<>>
  /\ paths = <<>>
  /\ out_len_paths = -1 /\ out_len_solved = -1
  /\ n = 0
  /\ nodes_to_remove = <<>>
  /\ home_nodes_per = <<>> /\ work_nodes_per = <<>>
  /\ paths_per = <<>>
  /\ out_len_paths_per = -1
  /\ err = "ok"
  /\ prev = NoPrev
  /\ od_rows \in OdRowCounts
  /\ trip_efficiency = <<>> /\ trip_efficiency_per = <<>>
  /\ frac_unsolvable = NoFloat /\ eff_degradation = NoFloat
  /\ tie \in TiePolicies
  /\ fn_pc = "off" /\ fn_in = Unset /\ fn_out = Unset
  /\ CIOff

\* np.random.seed(seed)
SeedCell ==
  /\ pc = "seed"
  /\ rng' = np_random_seed(rng, seed)
  /\ pc' = "od"
  /\ UNCHANGED <<run, seed, frac, k, od, heap, G, G_per, home_nodes, work_nodes,
                 paths, out_len_paths, out_len_solved, n, nodes_to_remove,
                 home_nodes_per, work_nodes_per, paths_per, out_len_paths_per,
                 err, prev, od_rows>>
  /\ UNCHANGED <<effvars, fnvars, civars, tie>>

\* od = pd.read_csv("data/od.csv").sample(k)
OdSampleCell ==
  /\ pc = "od"
  /\ LET s == PandasSample(OdTable(od_rows), k, rng) IN
       IF s.err # "ok"
       THEN /\ err' = s.err /\ pc' = "error" /\ UNCHANGED <<od, rng>>
       ELSE /\ od' = s.values /\ rng' = s.rng /\ pc' = "nearest" /\ UNCHANGED err
  /\ UNCHANGED <<run, seed, frac, k, heap, G, G_per, home_nodes, work_nodes,
                 paths, out_len_paths, out_len_solved, n, nodes_to_remove,
                 home_nodes_per, work_nodes_per, paths_per, out_len_paths_per,
                 prev, od_rows>>
  /\ UNCHANGED <<effvars, fnvars, civars, tie>>

\* home_nodes / work_nodes = ox.distance.nearest_nodes(G, ...)
NearestCell ==
  /\ pc = "nearest"
  /\ home_nodes' = nearest_nodes(heap[G], [i \in 1..Len(od) |-> od[i].home], tie.nearest)
  /\ work_nodes' = nearest_nodes(heap[G], [i \in 1..Len(od) |-> od[i].work], tie.nearest)
  /\ pc' = "route"
  /\ UNCHANGED <<run, seed, frac, k, rng, od, heap, G, G_per,
                 paths, out_len_paths, out_len_solved, n, nodes_to_remove,
                 home_nodes_per, work_nodes_per, paths_per, out_len_paths_per,
                 err, prev, od_rows>>
  /\ UNCHANGED <<effvars, fnvars, civars, tie>>

\* paths = [shortest_path(...) for orig, dest in zip(...)]; len(paths)
RouteCell ==
  /\ pc = "route"
  /\ \E order \in EdgeOrders(heap[G], home_nodes, work_nodes, tie.route) :
       LET ps == RoutePaths(heap[G], home_nodes, work_nodes, order) IN
         /\ tie' = [tie EXCEPT !.route = order]
         /\ IF BatchError(ps) # "ok"
            THEN /\ err' = BatchError(ps) /\ pc' = "error"
                 /\ UNCHANGED <<paths, out_len_paths>>
            ELSE /\ paths' = ps
                 /\ out_len_paths' = Len(ps)
                 /\ pc' = "filter"
                 /\ UNCHANGED err
  /\ UNCHANGED <<run, seed, frac, k, rng, od, heap, G, G_per, home_nodes,
                 work_nodes, out_len_solved, n, nodes_to_remove,
                 home_nodes_per, work_nodes_per, paths_per, out_len_paths_per,
                 prev, od_rows>>
  /\ UNCHANGED <<effvars, fnvars, civars>>

\* the number of routes the plot cells take from a batch
PlotRoutes == 100

\* paths = [path for path in paths if path is not None and len(path) > 1]; len(paths)
FilterCell ==
  /\ pc = "filter"
  /\ paths' = FilterSolved(paths)
  /\ out_len_solved' = Len(paths')
  /\ pc' = "plot_routes"
  /\ UNCHANGED <<run, seed, frac, k, rng, od, heap, G, G_per, home_nodes,
                 work_nodes, out_len_paths, n, nodes_to_remove,
                 home_nodes_per, work_nodes_per, paths_per, out_len_paths_per,
                 err, prev, od_rows>>
  /\ UNCHANGED <<effvars, fnvars, civars, tie>>

\* a route plot that draws the bare graph when there is no route to plot
RoutePlotCellDrawsNothing ==
  /\ pc = "plot_routes"
  /\ pc' = "efficiency"
  /\ UNCHANGED <<run, seed, frac, k, rng, od, heap, G, G_per, home_nodes,
                 work_nodes, paths, out_len_paths, out_len_solved, n, nodes_to_remove,
                 home_nodes_per, work_nodes_per, paths_per, out_len_paths_per,
                 err, prev, od_rows>>
  /\ UNCHANGED <<effvars, fnvars, civars, tie>>

\* ox.plot.plot_graph_routes(G, routes=paths[0:100], ...): raises ValueError
\* when there is no route to plot, binds only fig and ax otherwise
RoutePlotCell ==
  /\ pc = "plot_routes"
  /\ IF SubSeq(paths, 1, Min({PlotRoutes, Len(paths)})) = <<>>
     THEN err' = "ValueError" /\ pc' = "error"
     ELSE pc' = "efficiency" /\ UNCHANGED err
  /\ UNCHANGED <<run, seed, frac, k, rng, od, heap, G, G_per, home_nodes,
                 work_nodes, paths, out_len_paths, out_len_solved, n, nodes_to_remove,
                 home_nodes_per, work_nodes_per, paths_per, out_len_paths_per,
                 prev, od_rows>>
  /\ UNCHANGED <<effvars, fnvars, civars, tie>>

\* n = int(len(G.nodes) * frac)
\* nodes_to_remove = pd.Series(G.nodes).sample(n).index
\* G_per = G.copy(); G_per.remove_nodes_from(nodes_to_remove)
PerturbCell ==
  /\ pc = "perturb"
  /\ LET size == SampleSize(Len(heap[G].nodes), frac, FracDen)
         s    == NodeSeriesSample(heap[G].nodes, size, rng)
         ref  == GraphCopy(G)
         h1   == [heap EXCEPT ![ref] = heap[G]]
     IN /\ n' = size
        /\ IF s.err # "ok"
           THEN /\ err' = s.err /\ pc' = "error"
                /\ UNCHANGED <<rng, nodes_to_remove, G_per, heap>>
           ELSE /\ rng' = s.rng
                /\ nodes_to_remove' = s.index
                /\ G_per' = ref
                /\ heap' = [h1 EXCEPT ![ref] = remove_nodes_from(h1[ref], SeqToSet(s.index))]
                /\ pc' = "route_per"
                /\ UNCHANGED err
  /\ UNCHANGED <<run, seed, frac, k, od, G, home_nodes, work_nodes,
                 paths, out_len_paths, out_len_solved, od_rows,
                 home_nodes_per, work_nodes_per, paths_per, out_len_paths_per, prev>>
  /\ UNCHANGED <<effvars, fnvars, civars, tie>>

\* home_nodes_per, work_nodes_per = nearest_nodes(G_per, ...); paths_per =
\* routes on G_per, nulls dropped; len(paths_per).  nearest_nodes raises on a
\* graph without nodes.
RoutePerCell ==
  /\ pc = "route_per"
  /\ IF heap[G_per].nodes = <<>>
     THEN /\ err' = "ValueError" /\ pc' = "error"
          /\ UNCHANGED <<home_nodes_per, work_nodes_per, paths_per, out_len_paths_per, tie>>
     ELSE /\ home_nodes_per' = nearest_nodes(heap[G_per], [i \in 1..Len(od) |-> od[i].home], tie.nearest)
          /\ work_nodes_per' = nearest_nodes(heap[G_per], [i \in 1..Len(od) |-> od[i].work], tie.nearest)
          /\ \E order \in EdgeOrders(heap[G_per], home_nodes_per', work_nodes_per', tie.route) :
               LET ps == RoutePaths(heap[G_per], home_nodes_per', work_nodes_per', order) IN
                 /\ tie' = [tie EXCEPT !.route = order]
                 /\ IF BatchError(ps) # "ok"
                    THEN /\ err' = BatchError(ps) /\ pc' = "error"
                         /\ UNCHANGED <<paths_per, out_len_paths_per>>
                    ELSE /\ paths_per' = FilterSolved(ps)
                         /\ out_len_paths_per' = Len(paths_per')
                         /\ pc' = "efficiency_per"
                         /\ UNCHANGED err
  /\ UNCHANGED <<run, seed, frac, k, rng, od, heap, G, G_per, home_nodes,
                 work_nodes, paths, out_len_paths, out_len_solved, n,
                 nodes_to_remove, prev, od_rows>>
  /\ UNCHANGED <<effvars, fnvars, civars>>

\* the pipeline names that the efficiency and metric cells leave alone
batchvars == <<run, seed, frac, k, rng, od, heap, G, G_per, home_nodes, work_nodes,
               paths, out_len_paths, out_len_solved, n, nodes_to_remove,
               home_nodes_per, work_nodes_per, paths_per, out_len_paths_per,
               prev, od_rows, tie>>

\* trip_efficiency = pd.Series([calc_efficiency(G, path) for path in paths])
EfficiencyCell ==
  /\ pc = "efficiency"
  /\ LET fs == EfficiencySeries(heap[G], paths) IN
       IF SeriesError(fs) # "ok"
       THEN /\ err' = SeriesError(fs) /\ pc' = "error" /\ UNCHANGED trip_efficiency
       ELSE /\ trip_efficiency' = fs /\ pc' = "perturb" /\ UNCHANGED err
  /\ UNCHANGED <<batchvars, trip_efficiency_per, frac_unsolvable, eff_degradation, fnvars, civars>>

\* trip_efficiency_per = pd.Series([calc_efficiency(G_per, path) for path in paths_per])
EfficiencyPerCell ==
  /\ pc = "efficiency_per"
  /\ LET fs == EfficiencySeries(heap[G_per], paths_per) IN
       IF SeriesError(fs) # "ok"
       THEN /\ err' = SeriesError(fs) /\ pc' = "error" /\ UNCHANGED trip_efficiency_per
       ELSE /\ trip_efficiency_per' = fs /\ pc' = "unsolvable" /\ UNCHANGED err
  /\ UNCHANGED <<batchvars, trip_efficiency, frac_unsolvable, eff_degradation, fnvars, civars>>

\* 1 - (len(paths_per) / len(paths))
UnsolvableCell ==
  /\ pc = "unsolvable"
  /\ LET f == FractionUnsolvable(Len(paths_per), Len(paths)) IN
       IF f.kind = "error"
       THEN /\ err' = f.err /\ pc' = "error" /\ UNCHANGED frac_unsolvable
       ELSE /\ frac_unsolvable' = f /\ pc' = "degradation" /\ UNCHANGED err
  /\ UNCHANGED <<batchvars, trip_efficiency, trip_efficiency_per, eff_degradation, fnvars, civars>>

\* 1 - (trip_efficiency_per.mean() / trip_efficiency.mean())
DegradationCell ==
  /\ pc = "degradation"
  /\ eff_degradation' = EfficiencyDegradation(SeriesMean(trip_efficiency_per),
                                              SeriesMean(trip_efficiency))
  /\ pc' = "plot"
  /\ UNCHANGED <<batchvars, err, trip_efficiency, trip_efficiency_per, frac_unsolvable, fnvars, civars>>

\* n = 100; all_paths = paths[:n] + paths_per[:n]; colors = ["c"] * n +
\* ["y"] * n; pd.DataFrame({"path": all_paths, "color": colors}).sample(frac=1):
\* columns of different lengths raise ValueError; the sample of every row is a
\* permutation drawn from the global generator
PlotCell ==
  /\ pc = "plot"
  /\ n' = PlotRoutes
  /\ LET all_paths == SubSeq(paths, 1, Min({PlotRoutes, Len(paths)}))
                         \o SubSeq(paths_per, 1, Min({PlotRoutes, Len(paths_per)}))
     IN IF Len(all_paths) # PlotRoutes + PlotRoutes
        THEN /\ err' = "ValueError" /\ pc' = "error" /\ UNCHANGED rng
        ELSE /\ rng' = PandasSample(all_paths, Len(all_paths), rng).rng
             /\ pc' = "done" /\ UNCHANGED err
  /\ UNCHANGED <<run, seed, frac, k, od, heap, G, G_per, home_nodes, work_nodes,
                 paths, out_len_paths, out_len_solved, nodes_to_remove,
                 home_nodes_per, work_nodes_per, paths_per, out_len_paths_per,
                 prev, od_rows>>
  /\ UNCHANGED <<effvars, fnvars, civars, tie>>

\* the kernel is restarted and the notebook run a second time on the same
\* graph with the same fraction; the seed, the OD sample size and the file
\* data/od.csv may have been edited
Restart ==
  /\ pc \in {"done", "error"}
  /\ run = 1
  /\ run' = 2
  /\ prev' = [seed |-> seed, frac |-> frac, k |-> k, od_rows |-> od_rows, sel |-> nodes_to_remove,
              valid |-> (G_per # Unset)]
  /\ seed' \in Seeds
  /\ k' \in 1..MaxOD
  /\ pc' = "seed"
  /\ rng' \in FreshRng
  /\ od' = <<>>
  /\ heap' = [r \in Refs |-> IF r = "base" THEN heap["base"] ELSE NoGraph]
  /\ G_per' = Unset
  /\ home_nodes' = <<>> /\ work_nodes' = <<>>
  /\ paths' = <<>>
  /\ out_len_paths' = -1 /\ out_len_solved' = -1
  /\ n' = 0
  /\ nodes_to_remove' = <<>>
  /\ home_nodes_per' = <<>> /\ work_nodes_per' = <<>>
  /\ paths_per' = <<>>
  /\ out_len_paths_per' = -1
  /\ err' = "ok"
  /\ od_rows' \in OdRowCounts
  /\ trip_efficiency' = <<>> /\ trip_efficiency_per' = <<>>
  /\ frac_unsolvable' = NoFloat /\ eff_degradation' = NoFloat
  /\ UNCHANGED <<frac, G, fnvars, civars, tie>>

Next ==
  \/ SeedCell
  \/ OdSampleCell
  \/ NearestCell
  \/ RouteCell
  \/ FilterCell
  \/ RoutePlotCell
  \/ PerturbCell
  \/ RoutePerCell
  \/ EfficiencyCell
  \/ EfficiencyPerCell
  \/ UnsolvableCell
  \/ DegradationCell
  \/ PlotCell
  \/ Restart

Spec == Init /\ [][Next]_vars

----------------------------------------------------------------------------
(* calc_efficiency, the metrics and the accessibility cap exercised on their *)
(* own: the notebook is not running, one call is made on a chosen input      *)

NotebookOff ==
  /\ pc = "off" /\ run = 0 /\ seed = 0 /\ frac = 0 /\ k = 0 /\ rng = 0
  /\ od = <<>>
  /\ heap = [r \in Refs |-> NoGraph]
  /\ G = "base" /\ G_per = Unset
  /\ home_nodes = <<>> /\ work_nodes = <<>> /\ paths = <<>>
  /\ out_len_paths = -1 /\ out_len_solved = -1
  /\ n = 0 /\ nodes_to_remove = <<>>
  /\ home_nodes_per = <<>> /\ work_nodes_per = <<>> /\ paths_per = <<>>
  /\ out_len_paths_per = -1
  /\ err = "ok" /\ prev = NoPrev /\ od_rows = 0
  /\ trip_efficiency = <<>> /\ trip_efficiency_per = <<>>
  /\ frac_unsolvable = NoFloat /\ eff_degradation = NoFloat
  /\ tie = [nearest |-> "first", route |-> <<>>]

notebookvars == <<pc, err, batchvars, effvars>>

\* further street layouts for calc_efficiency
EffShapes ==
  << \* two nodes at the same place joined by a zero-length edge
     [xy |-> << <<0, 0>>, <<0, 0>> >>, arcs |-> {Arc(0, 1, 0, 0, 0)}],
     \* two nodes at the same place joined by a loop road of length 1
     [xy |-> << <<0, 0>>, <<0, 0>> >>, arcs |-> {Arc(0, 1, 0, 1, 1)}],
     \* two places joined by an edge recorded with length 0
     [xy |-> << <<0, 0>>, <<1, 0>> >>, arcs |-> {Arc(0, 1, 0, 0, 1)}],
     \* three intersections on one straight street, slow traffic
     [xy |-> << <<0, 0>>, <<1, 0>>, <<2, 0>> >>,
      arcs |-> {Arc(0, 1, 0, 1, 2), Arc(1, 2, 0, 1, 2), Arc(2, 1, 0, 1, 2)}],
     \* a cul-de-sac loop (self-loop) at the end of a street
     [xy |-> << <<0, 0>>, <<1, 0>> >>, arcs |-> {Arc(0, 0, 0, 1, 1), Arc(1, 0, 0, 1, 1)}],
     \* an edge recorded shorter than the distance between its ends
     [xy |-> << <<0, 0>>, <<2, 0>> >>, arcs |-> {Arc(0, 1, 0, 1, 1)}]
  >>

EffGraphs ==
  {MakeGraph(Shapes[s], 0) : s \in 1..Len(Shapes)}
     \cup {MakeGraph(EffShapes[s], 0) : s \in 1..Len(EffShapes)}

\* an identifier that is no node of any layout
ForeignNode == 99

\* every node list of at most MaxRouteLen entries, edges or no edges
RouteInputs(g) ==
  UNION {[1..m -> NodeSet(g) \cup {ForeignNode}] : m \in 0..MaxRouteLen}

EffInit ==
  /\ NotebookOff /\ CIOff
  /\ fn_pc = "call"
  /\ fn_in \in UNION {{[g |-> g, route |-> r] : r \in RouteInputs(g)} : g \in EffGraphs}
  /\ fn_out = Unset

\* calc_efficiency(G, route)
EffCall ==
  /\ fn_pc = "call"
  /\ fn_out' = calc_efficiency(fn_in.g, fn_in.route)
  /\ fn_pc' = "returned"
  /\ UNCHANGED <<fn_in, notebookvars, civars>>

EffNext == EffCall

SpecEff == EffInit /\ [][EffNext]_vars

MetricInit ==
  /\ NotebookOff /\ CIOff
  /\ fn_pc = "call"
  /\ fn_in \in [metric : {"unsolvable", "degradation"},
                before : 1..MaxMetricIn, after : 0..MaxMetricIn]
  /\ fn_out = Unset

\* the fraction-unsolvable cell on two solved counts, the degradation cell on
\* two mean efficiencies (in one unit); the notebook reaches both cells
\* with at least one trip solved before
MetricCall ==
  /\ fn_pc = "call"
  /\ fn_out' = IF fn_in.metric = "unsolvable"
               THEN FractionUnsolvable(fn_in.after, fn_in.before)
               ELSE EfficiencyDegradation(Num(fn_in.after), Num(fn_in.before))
  /\ fn_pc' = "returned"
  /\ UNCHANGED <<fn_in, notebookvars, civars>>

MetricNext == MetricCall

SpecMetric == MetricInit /\ [][MetricNext]_vars

\* the sample size of the perturbation cell on its own: a graph of N nodes
\* and the fraction num / SizeDen written as a float
SizeInit ==
  /\ NotebookOff /\ CIOff
  /\ fn_pc = "call"
  /\ fn_in \in [N : 0..MaxSizeNodes, num : 0..SizeDen, den : {SizeDen}]
  /\ fn_out = Unset

\* n = int(len(G.nodes) * frac)
SizeCall ==
  /\ fn_pc = "call"
  /\ fn_out' = SampleSize(fn_in.N, fn_in.num, fn_in.den)
  /\ fn_pc' = "returned"
  /\ UNCHANGED <<fn_in, notebookvars, civars>>

SizeNext == SizeCall

SpecSize == SizeInit /\ [][SizeNext]_vars

\* the utility cap on the accessibility counts
AccessCap == 5

\* clipping from below in place of from above
ClipLower(series, cap) ==
  [i \in 1..Len(series) |-> IF series[i] < cap THEN cap ELSE series[i]]

\* access.clip(upper=cap)
ClipUpper(series, cap) ==
  [i \in 1..Len(series) |-> IF series[i] > cap THEN cap ELSE series[i]]

ClipInit ==
  /\ NotebookOff /\ CIOff
  /\ fn_pc = "call"
  /\ fn_in \in UNION {[1..m -> 0..MaxPoiCount] : m \in 1..MaxAccessNodes}
  /\ fn_out = Unset

\* access = access.clip(upper=5)
ClipCall ==
  /\ fn_pc = "call"
  /\ fn_out' = ClipUpper(fn_in, AccessCap)
  /\ fn_pc' = "returned"
  /\ UNCHANGED <<fn_in, notebookvars, civars>>

ClipNext == ClipCall

SpecClip == ClipInit /\ [][ClipNext]_vars

----------------------------------------------------------------------------
(* The CI job of the workflow: the steps of jobs.build in their order, each *)
(* run step under "bash -elo pipefail", so that the first command leaving   *)
(* a non-zero status ends its step, and a failed step ends the job         *)

\* stems 1 .. MaxNotebooks can be notebooks of the repository, stems
\* 1 .. MaxTrackedPy can be python files that the checkout brings along
MaxNotebooks == 2
MaxTrackedPy == 3

\* jobs.build.steps, by name and in the order of the workflow file
Steps ==
  << "Checkout repo", "Setup Python", "Install requirements",
     "Cache pre-commit", "Run pre-commit checks", "Test notebooks" >>

\* the position after the last step
JobOver == Len(Steps) + 1

\* a file of the working directory: <stem>.<ext>, and where it came from
File(stem, ext, origin) == [stem |-> stem, ext |-> ext, origin |-> origin]

\* the trees a push or a pull request can put under test
Trees ==
  {nbs \cup pys : nbs \in SUBSET {File(i, "ipynb", "repo") : i \in 1..MaxNotebooks},
                  pys \in SUBSET {File(i, "py", "repo") : i \in 1..MaxTrackedPy}}

\* the files a glob *.<ext> expands to, in the sorted order of the shell
RECURSIVE SortByStem(_)
SortByStem(fs) ==
  IF fs = {} THEN <<>>
  ELSE LET f == CHOOSE f \in fs : \A h \in fs : f.stem <= h.stem
       IN <<f>> \o SortByStem(fs \ {f})

Glob(files, ext) == SortByStem({f \in files : f.ext = ext})

\* an rm that leaves every file where it is
RmPyKeepsAll(files) == files

\* rm -r -f *.py
RmPy(files) == {f \in files : f.ext # "py"}

\* nbconvert has written the scripts of the first m notebooks of its
\* arguments: one <stem>.py beside each, written over a file of that name
NbconvertFirst(files, m) ==
  LET args == Glob(files, "ipynb")
      nbs  == {args[i] : i \in 1..m}
  IN {f \in files : ~(f.ext = "py" /\ \E nb \in nbs : nb.stem = f.stem)}
        \cup {File(nb.stem, "py", "converted") : nb \in nbs}

\* jupyter nbconvert --to python *.ipynb with every notebook converted
Nbconvert(files) == NbconvertFirst(files, Len(Glob(files, "ipynb")))

\* a workflow run starts on a tree of the repository
CIInit ==
  /\ NotebookOff
  /\ fn_pc = "off" /\ fn_in = Unset /\ fn_out = Unset
  /\ ci_step = 1 /\ ci_line = 0
  /\ ci_tree \in Trees
  /\ ci_files = {} /\ ci_todo = <<>> /\ ci_ran = <<>> /\ ci_log = <<>>
  /\ ci_conclusion = "none"

\* a step or a command left a non-zero status: the job fails, no later step
\* and no later command runs
FailJob ==
  /\ ci_conclusion' = "failure"
  /\ ci_step' = JobOver
  /\ ci_line' = 0

\* step i starts, runs as a whole and succeeds or fails
RunStep(i, ok) ==
  /\ ci_step = i /\ ci_conclusion = "none"
  /\ ci_log' = Append(ci_log, Steps[i])
  /\ IF ok THEN ci_step' = i + 1 /\ UNCHANGED <<ci_line, ci_conclusion>>
     ELSE FailJob

\* uses: actions/checkout@v4
CheckoutRepo ==
  \E ok \in BOOLEAN :
     /\ RunStep(1, ok)
     /\ ci_files' = IF ok THEN ci_tree ELSE ci_files
     /\ UNCHANGED <<ci_tree, ci_todo, ci_ran, notebookvars, fnvars>>

\* uses: actions/setup-python@v5
SetupPython ==
  \E ok \in BOOLEAN :
     /\ RunStep(2, ok)
     /\ UNCHANGED <<ci_tree, ci_files, ci_todo, ci_ran, notebookvars, fnvars>>

\* python -m pip install -r requirements.txt; python -m pip check
InstallRequirements ==
  \E okInstall \in BOOLEAN, okCheck \in BOOLEAN :
     /\ RunStep(3, okInstall /\ okCheck)
     /\ UNCHANGED <<ci_tree, ci_files, ci_todo, ci_ran, notebookvars, fnvars>>

\* uses: actions/cache@v4
CachePreCommit ==
  \E ok \in BOOLEAN :
     /\ RunStep(4, ok)
     /\ UNCHANGED <<ci_tree, ci_files, ci_todo, ci_ran, notebookvars, fnvars>>

\* pre-commit run --all-files
RunPreCommit ==
  \E ok \in BOOLEAN :
     /\ RunStep(5, ok)
     /\ UNCHANGED <<ci_tree, ci_files, ci_todo, ci_ran, notebookvars, fnvars>>

\* Test notebooks, line 1: ipython -c "import osmnx; print(osmnx.__version__)"
TestImportOsmnx ==
  \E ok \in BOOLEAN :
     /\ ci_step = Len(Steps) /\ ci_line = 0 /\ ci_conclusion = "none"
     /\ ci_log' = Append(ci_log, Steps[Len(Steps)])
     /\ IF ok THEN ci_line' = 2 /\ UNCHANGED <<ci_step, ci_conclusion>>
        ELSE FailJob
     /\ UNCHANGED <<ci_tree, ci_files, ci_todo, ci_ran, notebookvars, fnvars>>

\* Test notebooks, line 2: rm -r -f *.py (with -f, status 0 whatever matches)
TestRmStale ==
  /\ ci_step = Len(Steps) /\ ci_line = 2
  /\ ci_files' = RmPy(ci_files)
  /\ ci_line' = 3
  /\ UNCHANGED <<ci_step, ci_tree, ci_todo, ci_ran, ci_log, ci_conclusion,
                 notebookvars, fnvars>>

\* Test notebooks, line 3: jupyter nbconvert --to python *.ipynb; without a
\* notebook the pattern matches nothing and nbconvert exits non-zero; the
\* notebooks are converted one after the other, each script written before
\* the next notebook is read, so a notebook that fails to convert leaves the
\* scripts of the m notebooks before it behind
TestNbconvert ==
  \E m \in 0..Len(Glob(ci_files, "ipynb")) :
     /\ ci_step = Len(Steps) /\ ci_line = 3
     /\ IF m = Len(Glob(ci_files, "ipynb")) /\ m > 0
        THEN /\ ci_files' = Nbconvert(ci_files)
             /\ ci_line' = 4
             /\ UNCHANGED <<ci_step, ci_conclusion>>
        ELSE FailJob /\ ci_files' = NbconvertFirst(ci_files, m)
     /\ UNCHANGED <<ci_tree, ci_todo, ci_ran, ci_log, notebookvars, fnvars>>

\* Test notebooks, line 4: for filename in *.py: the pattern is expanded
\* once; matching nothing it stays the word *.py, which ipython cannot open
TestForGlob ==
  /\ ci_step = Len(Steps) /\ ci_line = 4
  /\ IF Glob(ci_files, "py") # <<>>
     THEN /\ ci_todo' = Glob(ci_files, "py")
          /\ ci_line' = 5
          /\ UNCHANGED <<ci_step, ci_conclusion>>
     ELSE FailJob /\ UNCHANGED ci_todo
  /\ UNCHANGED <<ci_tree, ci_files, ci_ran, ci_log, notebookvars, fnvars>>

\* Test notebooks, line 4, one turn of the loop: ipython "$filename"
TestRunScript ==
  \E ok \in BOOLEAN :
     /\ ci_step = Len(Steps) /\ ci_line = 5 /\ ci_todo # <<>>
     /\ ci_ran' = Append(ci_ran, [file |-> Head(ci_todo), ok |-> ok])
     /\ IF ok THEN ci_todo' = Tail(ci_todo) /\ UNCHANGED <<ci_step, ci_line, ci_conclusion>>
        ELSE FailJob /\ UNCHANGED ci_todo
     /\ UNCHANGED <<ci_tree, ci_files, ci_log, notebookvars, fnvars>>

\* Test notebooks, line 5 once the loop is through: rm -r -f *.py; the last
\* step has succeeded and so has the job
TestRmFinal ==
  /\ ci_step = Len(Steps) /\ ci_line = 5 /\ ci_todo = <<>>
  /\ ci_files' = RmPy(ci_files)
  /\ ci_step' = JobOver /\ ci_line' = 0
  /\ ci_conclusion' = "success"
  /\ UNCHANGED <<ci_tree, ci_todo, ci_ran, ci_log, notebookvars, fnvars>>

CINext ==
  \/ CheckoutRepo \/ SetupPython \/ InstallRequirements \/ CachePreCommit
  \/ RunPreCommit \/ TestImportOsmnx \/ TestRmStale \/ TestNbconvert
  \/ TestForGlob \/ TestRunScript \/ TestRmFinal

SpecCI == CIInit /\ [][CINext]_vars

----------------------------------------------------------------------------
(* Properties of the perturbation cell *)

\* the perturbation cell has produced a perturbed graph
Perturbed == G_per # Unset

BaseNodes == NodeSet(heap["base"])

\* nodes of the base graph that are missing from the perturbed graph
RemovedNodes == BaseNodes \ NodeSet(heap[G_per])

InRange(num) == 0 <= num /\ num <= FracDen

\* C1: for every graph with N nodes and every fraction f in [0,1], the
\* perturbation removes exactly floor(f * N) nodes: the sample size n of the
\* perturbation cell is floor(f * N) for the fraction f = num / den
C1_RemovesFloorOfFraction ==
  fn_pc = "returned" =>
     fn_in.N - fn_out = fn_in.N - ((fn_in.num * fn_in.N) \div fn_in.den)

\* C2: the values selected for removal are pairwise distinct and each one is
\* the identifier of a node of the input graph
C2_SelectionIsSubsetOfNodeIds ==
  Perturbed =>
     /\ \A i, j \in 1..Len(nodes_to_remove) :
           i # j => nodes_to_remove[i] # nodes_to_remove[j]
     /\ \A i \in 1..Len(nodes_to_remove) : nodes_to_remove[i] \in BaseNodes

\* C2 witness: two nodes were selected on a graph whose identifiers are no row
\* positions
C2_Witness ==
  /\ Perturbed /\ Len(nodes_to_remove) >= 2
  /\ heap["base"].nodes[1] >= 100
  /\ SeqToSet(nodes_to_remove) = RemovedNodes

\* C3: no step of the notebook, the copy-then-remove of the perturbation cell
\* included, changes the graph that G refers to
C3_InputGraphNotMutated == [][G' = G /\ heap'[G] = heap[G]]_vars

\* C3 witness: the perturbed graph has lost a node that G still has
C3_Witness == Perturbed /\ RemovedNodes # {} /\ G = "base" /\ G_per # G

\* C4: in the perturbed graph no edge touches a removed node, every edge joins
\* two nodes of the perturbed graph, and every base edge between two
\* surviving nodes is still there
C4_PerturbedEdgesConsistent ==
  Perturbed =>
     LET gp == heap[G_per] IN
     /\ \A e \in gp.edges :
           /\ e.u \notin RemovedNodes /\ e.v \notin RemovedNodes
           /\ e.u \notin SeqToSet(nodes_to_remove) /\ e.v \notin SeqToSet(nodes_to_remove)
           /\ e.u \in NodeSet(gp) /\ e.v \in NodeSet(gp)
     /\ \A e \in heap["base"].edges :
           (e.u \in NodeSet(gp) /\ e.v \in NodeSet(gp)) => e \in gp.edges

\* C4 witness: a node with an edge was removed and another edge survived
C4_Witness ==
  /\ Perturbed
  /\ \E e \in heap["base"].edges : e.u \in RemovedNodes \/ e.v \in RemovedNodes
  /\ heap[G_per].edges # {}

\* C5: the second run, with the seed and fraction of the first on the same
\* graph, selects the same nodes whatever was drawn between seeding and
\* perturbation
C5_SameSeedSameSelection ==
  (run = 2 /\ Perturbed /\ prev.valid /\ prev.seed = seed /\ prev.frac = frac) =>
     SeqToSet(nodes_to_remove) = SeqToSet(prev.sel)

\* C6: with fraction 0 the perturbed graph has the nodes and the edges of the
\* input graph
C6_ZeroFractionSameGraph ==
  (Perturbed /\ frac = 0) =>
     /\ heap[G_per].nodes = heap["base"].nodes
     /\ heap[G_per].edges = heap["base"].edges

\* C6 witness: a perturbation with fraction 0 of a graph that has edges
C6_Witness == Perturbed /\ frac = 0 /\ heap["base"].edges # {} /\ n = 0

\* C7: a fraction outside [0,1] fails and produces no perturbed graph
C7_OutOfRangeFractionFails ==
  (~InRange(frac) /\ pc \in {"route_per", "done", "error"} /\ out_len_solved # -1) =>
     (pc = "error" /\ err # "ok" /\ ~Perturbed)

----------------------------------------------------------------------------
(* Properties of the batch routing and the null filter *)

\* the routing result of the i-th OD pair between the nodes it was snapped to,
\* on the perturbed graph (per) or on the base graph
RawResult(per, i) ==
  IF per THEN shortest_path(heap[G_per], home_nodes_per[i], work_nodes_per[i], tie.route)
  ELSE shortest_path(heap["base"], home_nodes[i], work_nodes[i], tie.route)

\* the i-th OD pair was snapped to a nearest node of the base graph at each end
SnappedToNearest(i) ==
  /\ home_nodes[i] \in NearestCandidates(heap["base"], od[i].home)
  /\ work_nodes[i] \in NearestCandidates(heap["base"], od[i].work)

\* the OD pairs whose routing result is a route of at least 2 nodes
GoodPairs(per) ==
  {i \in 1..Len(od) : ~RawResult(per, i).isNone /\ Len(RawResult(per, i).route) >= 2}

\* the j-th smallest member of a set of indices
NthOf(S, j) == CHOOSE i \in S : Cardinality({m \in S : m <= i}) = j

\* the null filter of the base batch has run
Filtered == out_len_solved # -1

\* a solved list: non-null routes of at least 2 nodes, as many as there are
\* good pairs, never more than the OD pairs
SolvedListOk(ps, per) ==
  /\ \A j \in 1..Len(ps) : ~ps[j].isNone /\ Len(ps[j].route) >= 2
  /\ Len(ps) = Cardinality(GoodPairs(per))
  /\ Len(ps) <= Len(od)

\* C8: the solved set holds no null and no route shorter than 2 nodes, every
\* pair with such a result is left out, and the solved count is at most the
\* number of OD pairs, in the base batch and in the perturbed batch
C8_SolvedSetFiltered ==
  /\ Filtered => (SolvedListOk(paths, FALSE) /\ out_len_solved = Len(paths))
  /\ out_len_paths_per # -1 =>
        (SolvedListOk(paths_per, TRUE) /\ out_len_paths_per = Len(paths_per))

\* C8 witness: a batch of two pairs, one with a one-node route left out and
\* one solved
C8_Witness ==
  /\ Filtered /\ Len(od) = 2 /\ Len(paths) = 1
  /\ \E i \in 1..2 : ~RawResult(FALSE, i).isNone /\ Len(RawResult(FALSE, i).route) = 1

\* C9: a batch over k OD pairs, on the base graph or on the perturbed graph,
\* runs to completion and yields exactly k results, each a route or null; an
\* unreachable pair does not stop it, and the number of excluded pairs is
\* printed (the two lengths of the base batch differ by it)
C9_BatchCompletes ==
  /\ pc = "filter" =>
        /\ Len(paths) = Len(od) /\ Len(od) = k
        /\ out_len_paths = k
        /\ \A i \in 1..Len(od) : paths[i].isNone <=> RawResult(FALSE, i).isNone
        /\ err = "ok"
  /\ Filtered =>
        out_len_paths - out_len_solved = k - Cardinality(GoodPairs(FALSE))
  /\ pc = "error" => Filtered
  /\ (Perturbed /\ pc \notin {"perturb", "route_per"}) => out_len_paths_per # -1
  /\ out_len_paths_per # -1 =>
        /\ Len(home_nodes_per) = k /\ Len(work_nodes_per) = k
        /\ k - out_len_paths_per = k - Cardinality(GoodPairs(TRUE))

\* C10: the i-th batch result is the routing result of the i-th OD pair, and
\* the filtered list is the solved results in the order of their pairs
C10_ResultsKeepInputOrder ==
  /\ pc = "filter" =>
        /\ Len(paths) = Len(od)
        /\ \A i \in 1..Len(od) : SnappedToNearest(i) /\ paths[i] = RawResult(FALSE, i)
  /\ Filtered =>
        /\ Len(paths) = Cardinality(GoodPairs(FALSE))
        /\ \A j \in 1..Len(paths) :
              paths[j] = RawResult(FALSE, NthOf(GoodPairs(FALSE), j))

\* C10 witness: two solved pairs with different routes
C10_Witness ==
  /\ Filtered /\ Len(paths) = 2 /\ paths[1] # paths[2]

----------------------------------------------------------------------------
(* Properties of calc_efficiency *)

\* the call under check has returned (a value or an exception)
Returned == fn_pc = "returned"

\* a route of at least 2 nodes of the graph, consecutive nodes joined by an edge
ValidRoute(g, r) ==
  /\ Len(r) >= 2
  /\ \A i \in 1..Len(r) : r[i] \in NodeSet(g)
  /\ \A i \in 1..(Len(r) - 1) : \E e \in g.edges : e.u = r[i] /\ e.v = r[i + 1]

\* length of the edge driven from the i-th node of the route to the next
EdgeLengthAt(g, r, i) ==
  CHOOSE l \in {e.length : e \in {e \in g.edges : e.u = r[i] /\ e.v = r[i + 1]}} :
     \A e \in g.edges : (e.u = r[i] /\ e.v = r[i + 1]) => l <= e.length

\* summed edge length of the first m edges of the route
RECURSIVE SummedLength(_, _, _)
SummedLength(g, r, m) ==
  IF m = 0 THEN 0 ELSE SummedLength(g, r, m - 1) + EdgeLengthAt(g, r, m)

RouteLength(g, r) == SummedLength(g, r, Len(r) - 1)

\* the first and the last node of the route lie at the same coordinates
EndsCoincide(g, r) == g.x[r[1]] = g.x[r[Len(r)]] /\ g.y[r[1]] = g.y[r[Len(r)]]

\* squared straight-line distance between the first and the last node
EndsApartSq(g, r) ==
  (g.x[r[1]] - g.x[r[Len(r)]]) * (g.x[r[1]] - g.x[r[Len(r)]])
     + (g.y[r[1]] - g.y[r[Len(r)]]) * (g.y[r[1]] - g.y[r[Len(r)]])

\* the returned ratio is exactly 1
ReturnsOne == fn_out.kind = "num" /\ fn_out.v = EffScale /\ fn_out.gcsq = fn_out.trip * fn_out.trip

\* C11 as stated: for every route of at least 2 nodes with summed edge length
\* above 0, calc_efficiency returns a value strictly above 0
C11_EfficiencyStrictlyPositive ==
  (Returned /\ ValidRoute(fn_in.g, fn_in.route) /\ RouteLength(fn_in.g, fn_in.route) > 0) =>
     (fn_out.kind = "num" /\ fn_out.gcsq > 0)

\* C11 amended: for such a route calc_efficiency returns a number that is at
\* least 0, and above 0 exactly when the end nodes lie at different places
C11_EfficiencyPositiveIffEndsApart ==
  (Returned /\ ValidRoute(fn_in.g, fn_in.route) /\ RouteLength(fn_in.g, fn_in.route) > 0) =>
     /\ fn_out.kind = "num" /\ fn_out.v >= 0 /\ fn_out.gcsq >= 0
     /\ fn_out.gcsq > 0 <=> ~EndsCoincide(fn_in.g, fn_in.route)
     /\ fn_out.trip = RouteLength(fn_in.g, fn_in.route)

\* C11 witness: a three-node route of positive length between two different
\* places has been evaluated
C11_Witness ==
  /\ Returned /\ Len(fn_in.route) = 3 /\ ValidRoute(fn_in.g, fn_in.route)
  /\ RouteLength(fn_in.g, fn_in.route) > 0
  /\ fn_out.kind = "num" /\ fn_out.v > 0

\* C12: for a route of at least 2 nodes with trip_distance 0 the calculation
\* fails with a division error and returns neither inf nor nan
C12_ZeroDistanceRaises ==
  (Returned /\ ValidRoute(fn_in.g, fn_in.route) /\ RouteLength(fn_in.g, fn_in.route) = 0) =>
     fn_out.kind = "error"

\* C13: a route with fewer than 2 nodes makes calc_efficiency fail; it never
\* returns a value
C13_ShortRouteRaises ==
  (Returned /\ Len(fn_in.route) < 2) => fn_out.kind = "error"

\* C14 as stated: the ratio is exactly 1 if and only if the route is a single
\* segment whose length equals the distance between its end nodes (taken on
\* the routes for which a number is returned)
C14_OneIffSingleStraightSegment ==
  (Returned /\ ValidRoute(fn_in.g, fn_in.route) /\ fn_out.kind = "num") =>
     (ReturnsOne <=>
        /\ Len(fn_in.route) = 2
        /\ RouteLength(fn_in.g, fn_in.route) * RouteLength(fn_in.g, fn_in.route)
              = EndsApartSq(fn_in.g, fn_in.route))

\* C14 amended: for every route of at least 2 nodes along edges of the graph
\* the ratio is exactly 1 if and only if the summed edge length of the route,
\* of one edge or of several, is above 0 and equals the distance between its
\* end nodes
C14_OneIffLengthEqualsDistance ==
  (Returned /\ ValidRoute(fn_in.g, fn_in.route)) =>
     (ReturnsOne <=>
        /\ RouteLength(fn_in.g, fn_in.route) > 0
        /\ RouteLength(fn_in.g, fn_in.route) * RouteLength(fn_in.g, fn_in.route)
              = EndsApartSq(fn_in.g, fn_in.route))

\* C14 witness: a route of two edges on one straight line returned 1
C14_Witness ==
  /\ Returned /\ Len(fn_in.route) = 3 /\ ValidRoute(fn_in.g, fn_in.route)
  /\ ReturnsOne

----------------------------------------------------------------------------
(* Properties of the comparative metrics and of the accessibility cap *)

C16_MetricsAreOneMinusAfterOverBefore ==
  Returned =>
     /\ (fn_in.metric = "unsolvable" /\ fn_in.before = 100 /\ fn_in.after = 80) =>
           (fn_out.kind = "num" /\ fn_out.v * 5 = Scale)
     /\ (fn_in.metric = "degradation" /\ fn_in.before = 75 /\ fn_in.after = 60) =>
           (fn_out.kind = "num" /\ fn_out.v * 5 = Scale)
     /\ (fn_in.before > 0 /\ fn_in.after = fn_in.before) => (fn_out.kind = "num" /\ fn_out.v = 0)
     /\ (fn_in.before > 0 /\ fn_in.after = 0) => (fn_out.kind = "num" /\ fn_out.v = Scale)
     /\ (fn_in.before > 0 /\ fn_in.after < fn_in.before) => (fn_out.kind = "num" /\ fn_out.v > 0)

\* C16 witness: the fraction-unsolvable metric of 100 solved before and 80
\* after has been computed
C16_Witness ==
  /\ Returned /\ fn_in.metric = "unsolvable" /\ fn_in.before = 100 /\ fn_in.after = 80
  /\ fn_out.kind = "num"

\* C17: after clipping no count exceeds the cap of 5, and every count at or
\* below the cap is unchanged
C17_ClippedCountsWithinCap ==
  Returned =>
     /\ Len(fn_out) = Len(fn_in)
     /\ \A i \in 1..Len(fn_in) :
           /\ fn_out[i] <= 5
           /\ fn_in[i] <= 5 => fn_out[i] = fn_in[i]

\* C17 witness: a series with a node reaching 8 POIs and a node reaching
\* fewer than 5 has been clipped
C17_Witness ==
  /\ Returned
  /\ \E i \in 1..Len(fn_in) : fn_in[i] = 8
  /\ \E i \in 1..Len(fn_in) : fn_in[i] < 5

----------------------------------------------------------------------------
(* Properties of the efficiency cells in the notebook *)

\* the base graph is the unit square
OnSquare == Len(heap["base"].nodes) = 4

\* the first sampled OD pair joins two opposite corners of the square
FirstPairOppositeCorners ==
  /\ Len(od) >= 1
  /\ (od[1].home[1] - od[1].work[1]) * (od[1].home[1] - od[1].work[1]) = 1
  /\ (od[1].home[2] - od[1].work[2]) * (od[1].home[2] - od[1].work[2]) = 1

\* the efficiency cell of the base run has produced its series
EfficiencyDone == Filtered /\ pc \notin {"plot_routes", "efficiency", "error"}

\* C18: on the unit square an OD pair at opposite corners gets a 3-node route
\* of length 2 and straight-line distance sqrt(2): efficiency squared is 1/2,
\* efficiency 0.7071 to four places
C18_SquareOppositeCorners ==
  (OnSquare /\ EfficiencyDone /\ FirstPairOppositeCorners) =>
     /\ Len(paths) >= 1 /\ Len(paths[1].route) = 3
     /\ Len(trip_efficiency) = Len(paths)
     /\ trip_efficiency[1].trip = 2
     /\ trip_efficiency[1].gcsq = 2
     /\ 2 * trip_efficiency[1].gcsq = trip_efficiency[1].trip * trip_efficiency[1].trip
     /\ trip_efficiency[1].kind = "num" /\ trip_efficiency[1].v = 7071

\* C18 witness: the efficiency of an opposite-corner trip on the square has
\* been computed
C18_Witness ==
  /\ OnSquare /\ EfficiencyDone /\ FirstPairOppositeCorners
  /\ Len(trip_efficiency) >= 1

\* C19: the perturbed graph never solves more trips than the base graph, so
\* the fraction-unsolvable metric lies in [0,1]
C19_SolvedNeverGrows ==
  /\ out_len_paths_per # -1 => Len(paths_per) <= Len(paths)
  /\ frac_unsolvable.kind = "num" => (0 <= frac_unsolvable.v /\ frac_unsolvable.v <= Scale)

\* the exceptions the notebook can end with, none of them from calc_efficiency
NoEfficiencyError ==
  pc = "error" =>
     \/ ~Perturbed /\ (n < 0 \/ n > Len(heap["base"].nodes))
     \/ Perturbed /\ out_len_paths_per = -1 /\ heap[G_per].nodes = <<>>
     \/ err = "ValueError" /\ Filtered /\ Len(paths) = 0 /\ trip_efficiency = <<>>
     \/ err = "IndexError" /\ Perturbed /\ out_len_paths_per = -1 /\ heap[G_per].edges = {}
     \/ err = "ValueError" /\ Perturbed /\ n = PlotRoutes /\ eff_degradation.kind # "unset"

\* C20: every route handed to calc_efficiency is a non-null route of at
\* least 2 nodes whose nodes and consecutive edges are in the graph it is
\* evaluated on, and no route of the perturbed run touches a removed node
C20_EfficiencyInputsValid ==
  /\ Filtered =>
        \A j \in 1..Len(paths) :
           ~paths[j].isNone /\ ValidRoute(heap[G], paths[j].route)
  /\ out_len_paths_per # -1 =>
        \A j \in 1..Len(paths_per) :
           /\ ~paths_per[j].isNone /\ ValidRoute(heap[G_per], paths_per[j].route)
           /\ \A i \in 1..Len(paths_per[j].route) : paths_per[j].route[i] \notin RemovedNodes
  /\ \A j \in 1..Len(trip_efficiency) : trip_efficiency[j].kind # "error"
  /\ \A j \in 1..Len(trip_efficiency_per) : trip_efficiency_per[j].kind # "error"
  /\ EfficiencyDone => Len(trip_efficiency) = Len(paths)
  /\ pc \in {"unsolvable", "degradation", "plot", "done"} => Len(trip_efficiency_per) = Len(paths_per)
  /\ NoEfficiencyError

\* C20 witness: a route of the perturbed run, on a graph that lost a node, has
\* been evaluated
C20_Witness ==
  /\ pc = "unsolvable" /\ RemovedNodes # {} /\ Len(trip_efficiency_per) >= 1
  /\ Len(trip_efficiency) >= 1

----------------------------------------------------------------------------
(* Properties of the CI job *)

\* s is an initial part of t
IsPrefix(s, t) == Len(s) <= Len(t) /\ \A i \in 1..Len(s) : s[i] = t[i]

\* the scripts the conversion makes of the notebooks of the tree, in the
\* order of the loop
ConvertedScripts ==
  SortByStem({File(nb.stem, "py", "converted") : nb \in {f \in ci_tree : f.ext = "ipynb"}})

\* the files handed to ipython by the loop so far, in the order of the calls
ScriptsRun == [i \in 1..Len(ci_ran) |-> ci_ran[i].file]

\* C21: the steps of the job start in the order of the workflow, none twice
\* and none skipped; the test step runs the scripts converted from the
\* notebooks, and no other file, one after the other; a script that fails is
\* the last one run and fails the job; the job succeeds only when every step
\* has run and every converted script has run with success
C21_StepsInOrderScriptsFailFast ==
  /\ IsPrefix(ci_log, Steps)
  /\ IsPrefix(ScriptsRun, ConvertedScripts)
  /\ \A i \in 1..Len(ci_ran) :
        ~ci_ran[i].ok => (i = Len(ci_ran) /\ ci_conclusion = "failure" /\ ci_step = JobOver)
  /\ ci_conclusion = "success" =>
        /\ ci_log = Steps
        /\ ScriptsRun = ConvertedScripts
        /\ \A i \in 1..Len(ci_ran) : ci_ran[i].ok
  /\ ci_conclusion = "failure" => ci_step = JobOver

\* C21 witness: the tree holds two notebooks and a python file of its own;
\* the first converted script has run and failed, the second has not run and
\* the job has failed
C21_Witness ==
  /\ Len(ConvertedScripts) = 2
  /\ \E f \in ci_tree : f.ext = "py"
  /\ ci_log = Steps
  /\ Len(ci_ran) = 1 /\ ~ci_ran[1].ok /\ ci_ran[1].file = ConvertedScripts[1]
  /\ ci_conclusion = "failure"

----------------------------------------------------------------------------
(* The efficiency ratio against its upper end *)

\* every edge of the graph is at least as long as the straight line between
\* its two end nodes
EdgesAtLeastStraight(g) ==
  \A e \in g.edges :
     e.length * e.length >=
        (g.x[e.u] - g.x[e.v]) * (g.x[e.u] - g.x[e.v])
           + (g.y[e.u] - g.y[e.v]) * (g.y[e.u] - g.y[e.v])

\* C22: for every route of at least 2 nodes on a graph whose edges are each
\* at least as long as the straight line between their end nodes,
\* calc_efficiency returns a number that is at most 1
C22_EfficiencyAtMostOne ==
  (Returned /\ ValidRoute(fn_in.g, fn_in.route) /\ EdgesAtLeastStraight(fn_in.g)) =>
     /\ fn_out.kind = "num"
     /\ fn_out.v <= EffScale
     /\ fn_out.gcsq <= fn_out.trip * fn_out.trip

====
